---- MODULE Spec2Model ----
(***************************************************************************)
(* Model of src/cli-deps-analyzer.js, the second script of the file        *)
(* (lines 137-299): validateArgs, parseTestGraph, collectEdges,            *)
(* generateD2Graph, buildTree, printTree and main.                         *)
(*                                                                         *)
(* Package names and the filter are strings, modelled as sequences of      *)
(* one-character strings so that String.prototype.includes and the         *)
(* template `${pkg} -> ${dep}` are computed, not assumed.                  *)
(***************************************************************************)
EXTENDS Integers, Sequences, FiniteSets, TLC

VARIABLES args, config, errors, pc, graph, visited, queue, edges, d2Code,
          nodeMap, stack, out, expansions, enqueued, skipped

vars == <<args, config, errors, pc, graph, visited, queue, edges, d2Code,
          nodeMap, stack, out, expansions, enqueued, skipped>>

(***************************************************************************)
(* Bounds of the model.                                                    *)
(***************************************************************************)
\* largest integer given as --max-depth
MaxDepthArg == 2
\* largest total number of dependency entries in the graph file
MaxEdges == 4
\* number of printNode frames the call stack holds before RangeError
StackLimit == 5

\* default of --max-depth in validateArgs
DefaultMaxDepth == 10

(***************************************************************************)
(* Values.                                                                 *)
(***************************************************************************)
\* the package names that occur in the graph file
Names == { <<"a">>, <<"b">>, <<"c", "b">> }

\* the JavaScript value undefined; as an object key and inside a template
\* string it reads "undefined", which is no name of the graph file
Undefined == <<"undefined">>

\* values of --package-name: a name of the graph file that does not contain
\* the filter, one that does, and the absent argument
Roots == { <<"a">>, <<"c", "b">>, Undefined }

\* values of --filter; <<>> is the absent argument (args['filter'] || '');
\* "c" is a proper substring of the name "cb" and of no other name
Filters == { <<>>, <<"c">> }

\* Number(args['max-depth']): an integer v, NaN, or no argument
Int_(v) == [k |-> "int", v |-> v]
NaN == [k |-> "nan", v |-> 0]
NoDepth == [k |-> "undef", v |-> 0]

DepthArgs == { Int_(v) : v \in -1..MaxDepthArg } \cup { NaN, NoDepth }

\* d >= m for an integer d and a JavaScript number m (false when m is NaN)
NumGE(d, m) == m.k = "int" /\ d >= m.v

\* d > m for an integer d and a JavaScript number m (false when m is NaN)
NumGT(d, m) == m.k = "int" /\ d > m.v

\* m < 0 for a JavaScript number m
NumNeg(m) == m.k = "int" /\ m.v < 0

\* s.includes(sub)
Includes(s, sub) ==
  \E i \in 0..(Len(s) - Len(sub)) : SubSeq(s, i + 1, i + Len(sub)) = sub

\* `${pkg} -> ${dep}`
EdgeStr(pkg, dep) == pkg \o <<" ", "-", ">", " ">> \o dep

\* a traversal that never looks at the path
OnPathNever(path, dep) == FALSE

\* path.includes(dep) on an array
OnPath(path, dep) == \E i \in 1..Len(path) : path[i] = dep


Range(s) == { s[i] : i \in 1..Len(s) }

\* Set.prototype.add on a Set kept in insertion order
SetAdd(s, x) == IF x \in Range(s) THEN s ELSE Append(s, x)

(***************************************************************************)
(* The graphs parseTestGraph can return: a mapping from some of the names  *)
(* to a list of names (duplicates kept), a name that is no key being       *)
(* absent from the mapping.  A key declared with no dependency reads as [] *)
(* exactly as an absent key does (graph[pkg] || []), so the files drawn    *)
(* declare a package only together with at least one dependency.           *)
(***************************************************************************)
RECURSIVE GraphsOver(_, _)
GraphsOver(S, budget) ==
  IF S = {} THEN { <<>> }
  ELSE LET n == CHOOSE x \in S : TRUE
           rest == S \ {n}
       IN GraphsOver(rest, budget)
          \cup UNION { { (n :> d) @@ g : d \in [1..l -> Names],
                                         g \in GraphsOver(rest, budget - l) }
                       : l \in 1..budget }

Graphs == GraphsOver(Names, MaxEdges)

\* graph[pkg] || []
Deps(pkg) == IF pkg \in DOMAIN graph THEN graph[pkg] ELSE <<>>

(***************************************************************************)
(* Command line: the arguments after the module-level parsing loop         *)
(* (lines 142-154).                                                        *)
(***************************************************************************)
RepoArgs == { "graph.txt", "nofile.txt", "undefined" }
ModeArgs == { "use-local", "clone", "undefined" }

\* fs.existsSync(config.repo)
ExistsSync(repo) == repo = "graph.txt"

\* The command lines drawn: every --max-depth, --filter and --tree for the
\* root <<"a">>; the root that contains the filter and the absent root at the
\* smallest and at the default depth; every --repo and --repo-mode.
TraversalArgs ==
  [ packageName : { <<"a">> }, repo : { "graph.txt" }, mode : { "use-local" },
    maxDepth : DepthArgs, filter : Filters, tree : BOOLEAN ]

RootArgs ==
  [ packageName : Roots, repo : { "graph.txt" }, mode : { "use-local" },
    maxDepth : { Int_(0), NoDepth }, filter : Filters, tree : { TRUE } ]

SourceArgs ==
  [ packageName : { <<"a">> }, repo : RepoArgs, mode : ModeArgs,
    maxDepth : { NoDepth }, filter : { <<>> }, tree : { FALSE } ]

Args == TraversalArgs \cup RootArgs \cup SourceArgs

Funcs == { "collectEdges", "buildTree" }

NoConfig ==
  [ packageName |-> Undefined, repo |-> "undefined", mode |-> "undefined",
    maxDepth |-> NoDepth, filter |-> <<>>, tree |-> FALSE ]

Init ==
  /\ args \in Args
  /\ config = NoConfig
  /\ errors = <<>>
  /\ pc = "start"
  /\ graph = <<>>
  /\ visited = [f \in Funcs |-> {}]
  /\ queue = [f \in Funcs |-> <<>>]
  /\ edges = <<>>
  /\ d2Code = <<>>
  /\ nodeMap = <<>>
  /\ stack = <<>>
  /\ out = <<>>
  /\ expansions = [f \in Funcs |-> <<>>]
  /\ enqueued = [f \in Funcs |-> {}]
  /\ skipped = [f \in Funcs |-> {}]

(***************************************************************************)
(* validateArgs                                                            *)
(***************************************************************************)
\* the messages validateArgs pushes on its local array errors
ArgErrors(a) ==
  LET maxDepth == IF a.maxDepth.k = "undef" THEN Int_(DefaultMaxDepth) ELSE a.maxDepth
  IN (IF a.packageName = Undefined THEN <<"package-name">> ELSE <<>>)
     \o (IF a.repo = "undefined" THEN <<"repo">> ELSE <<>>)
     \o (IF a.mode \notin {"clone", "use-local"} THEN <<"repo-mode">> ELSE <<>>)
     \o (IF maxDepth.k = "nan" \/ NumNeg(maxDepth) \/ maxDepth.k # "int"
         THEN <<"max-depth">> ELSE <<>>)

\* the object validateArgs returns
ArgConfig(a) ==
  [ packageName |-> a.packageName,
    repo |-> a.repo,
    mode |-> a.mode,
    maxDepth |-> IF a.maxDepth.k = "undef" THEN Int_(DefaultMaxDepth) ELSE a.maxDepth,
    filter |-> a.filter,
    tree |-> a.tree ]

\* what main does with the errors validateArgs found: the array is local to
\* validateArgs and is neither thrown nor returned
ErrorsThrown(errs) == FALSE

ValidateArgs ==
  /\ pc = "start"
  /\ errors' = ArgErrors(args)
  /\ config' = ArgConfig(args)
  /\ pc' = IF ErrorsThrown(ArgErrors(args)) THEN "error" ELSE "main"
  /\ UNCHANGED <<args, graph, visited, queue, edges, d2Code, nodeMap, stack, out,
                 expansions, enqueued, skipped>>

(***************************************************************************)
(* main, up to the call of collectEdges                                    *)
(***************************************************************************)
RootEntry == [pkg |-> config.packageName, depth |-> 0, path |-> <<config.packageName>>]

MainCloneMode ==
  /\ pc = "main"
  /\ config.mode # "use-local"
  /\ pc' = "done"
  /\ UNCHANGED <<args, config, errors, graph, visited, queue, edges, d2Code, nodeMap,
                 stack, out, expansions, enqueued, skipped>>

MainFileNotFound ==
  /\ pc = "main"
  /\ config.mode = "use-local"
  /\ ~ExistsSync(config.repo)
  /\ pc' = "error"
  /\ UNCHANGED <<args, config, errors, graph, visited, queue, edges, d2Code, nodeMap,
                 stack, out, expansions, enqueued, skipped>>

MainParseTestGraph ==
  /\ pc = "main"
  /\ config.mode = "use-local"
  /\ ExistsSync(config.repo)
  /\ \E g \in Graphs : graph' = g
  /\ queue' = [queue EXCEPT !.collectEdges = <<RootEntry>>]
  /\ enqueued' = [enqueued EXCEPT !.collectEdges = {RootEntry}]
  /\ pc' = "collectEdges"
  /\ UNCHANGED <<args, config, errors, visited, edges, d2Code, nodeMap, stack, out,
                 expansions, skipped>>

(***************************************************************************)
(* The conditions of the two breadth-first loops.                          *)
(***************************************************************************)
\* a filter that compares the whole name
FilteredExact(name) == config.filter # <<>> /\ name = config.filter

\* filter && name.includes(filter)
Filtered(name) == config.filter # <<>> /\ Includes(name, config.filter)

\* pkg.includes on undefined throws TypeError, once the filter is consulted
IncludesThrows(pkg) == config.filter # <<>> /\ pkg = Undefined

\* collectEdges cutting one level late
EdgesDepthCutLate(depth) == NumGT(depth, config.maxDepth)

\* collectEdges: if (depth >= maxDepth) continue
EdgesDepthCut(depth) == NumGE(depth, config.maxDepth)

\* buildTree: if (depth > maxDepth) continue
TreeDepthCut(depth) == NumGT(depth, config.maxDepth)

\* buildTree testing the depth of the parent instead of the child
TreeDepCutParent(depth) == NumGT(depth, config.maxDepth)

\* buildTree: if (depth + 1 > maxDepth) continue
TreeDepCut(depth) == NumGT(depth + 1, config.maxDepth)

\* a loop that never consults the visited set
AlreadyVisitedNever(f, pkg) == FALSE

\* if (visited.has(pkg)) continue
AlreadyVisited(f, pkg) == pkg \in visited[f]

\* reading queue[0] without removing it
ShiftPeek(q) == q

\* queue.shift(): what is left in the queue
Shift(q) == Tail(q)

Child(e, dep) == [pkg |-> dep, depth |-> e.depth + 1, path |-> Append(e.path, dep)]

(***************************************************************************)
(* collectEdges                                                            *)
(***************************************************************************)
\* the for loop over deps of collectEdges, entry e being expanded
RECURSIVE EdgesForDeps(_, _, _)
EdgesForDeps(deps, e, acc) ==
  IF deps = <<>> THEN acc
  ELSE LET dep == Head(deps)
       IN IF Filtered(dep) THEN EdgesForDeps(Tail(deps), e, acc)
          ELSE IF OnPath(e.path, dep)
          THEN EdgesForDeps(Tail(deps), e,
                 [acc EXCEPT !.skipped = @ \cup {Append(e.path, dep)}])
          ELSE EdgesForDeps(Tail(deps), e,
                 [acc EXCEPT !.edges = SetAdd(@, EdgeStr(e.pkg, dep)),
                             !.queue = Append(@, Child(e, dep)),
                             !.enqueued = @ \cup {Child(e, dep)}])

CollectEdgesLoop ==
  /\ pc = "collectEdges"
  /\ queue.collectEdges # <<>>
  /\ LET e == Head(queue.collectEdges)
         rest == Shift(queue.collectEdges)
     IN IF EdgesDepthCut(e.depth)
        THEN /\ queue' = [queue EXCEPT !.collectEdges = rest]
             /\ UNCHANGED <<pc, visited, edges, expansions, enqueued, skipped>>
        ELSE IF IncludesThrows(e.pkg)
        THEN /\ pc' = "error"
             /\ queue' = [queue EXCEPT !.collectEdges = rest]
             /\ UNCHANGED <<visited, edges, expansions, enqueued, skipped>>
        ELSE IF Filtered(e.pkg) \/ AlreadyVisited("collectEdges", e.pkg)
        THEN /\ queue' = [queue EXCEPT !.collectEdges = rest]
             /\ UNCHANGED <<pc, visited, edges, expansions, enqueued, skipped>>
        ELSE LET acc == EdgesForDeps(Deps(e.pkg), e,
                          [edges |-> edges, queue |-> rest,
                           enqueued |-> enqueued.collectEdges,
                           skipped |-> skipped.collectEdges])
             IN /\ visited' = [visited EXCEPT !.collectEdges = @ \cup {e.pkg}]
                /\ edges' = acc.edges
                /\ queue' = [queue EXCEPT !.collectEdges = acc.queue]
                /\ enqueued' = [enqueued EXCEPT !.collectEdges = acc.enqueued]
                /\ skipped' = [skipped EXCEPT !.collectEdges = acc.skipped]
                /\ expansions' = [expansions EXCEPT !.collectEdges = Append(@, e)]
                /\ UNCHANGED pc
  /\ UNCHANGED <<args, config, errors, graph, d2Code, nodeMap, stack, out>>

\* generateD2Graph(edges): the lines of the diagram
GenerateD2Graph(es) == IF Len(es) = 0 THEN << <<"//">> >> ELSE es

\* the cycle witnesses a traversal hands to its caller: collectEdges returns
\* Array.from(edges) and buildTree { root, nodeMap }, neither holds a cycle
ResultCycles(f) == {}

\* what main reports about a root that is no key of the graph: nothing, the
\* root is never looked up before the traversal
RootNotFound == FALSE

\* collectEdges returns Array.from(edges); main prints the diagram and, with
\* --tree, calls buildTree
CollectEdgesReturn ==
  /\ pc = "collectEdges"
  /\ queue.collectEdges = <<>>
  /\ d2Code' = GenerateD2Graph(edges)
  /\ IF config.tree
     THEN /\ pc' = "buildTree"
          /\ queue' = [queue EXCEPT !.buildTree = <<RootEntry>>]
          /\ enqueued' = [enqueued EXCEPT !.buildTree = {RootEntry}]
     ELSE /\ pc' = "done"
          /\ UNCHANGED <<queue, enqueued>>
  /\ UNCHANGED <<args, config, errors, graph, visited, edges, nodeMap, stack, out,
                 expansions, skipped>>

(***************************************************************************)
(* buildTree                                                               *)
(***************************************************************************)
\* the for loop over deps of buildTree, entry e being expanded
RECURSIVE TreeForDeps(_, _, _)
TreeForDeps(deps, e, acc) ==
  IF deps = <<>> THEN acc
  ELSE LET dep == Head(deps)
       IN IF Filtered(dep) \/ TreeDepCut(e.depth)
          THEN TreeForDeps(Tail(deps), e, acc)
          ELSE IF OnPath(e.path, dep)
          THEN TreeForDeps(Tail(deps), e,
                 [acc EXCEPT !.skipped = @ \cup {Append(e.path, dep)}])
          ELSE TreeForDeps(Tail(deps), e,
                 [acc EXCEPT !.deps = Append(@, dep),
                             !.queue = Append(@, Child(e, dep)),
                             !.enqueued = @ \cup {Child(e, dep)}])

BuildTreeLoop ==
  /\ pc = "buildTree"
  /\ queue.buildTree # <<>>
  /\ LET e == Head(queue.buildTree)
         rest == Shift(queue.buildTree)
     IN IF TreeDepthCut(e.depth)
        THEN /\ queue' = [queue EXCEPT !.buildTree = rest]
             /\ UNCHANGED <<pc, visited, nodeMap, expansions, enqueued, skipped>>
        ELSE IF IncludesThrows(e.pkg)
        THEN /\ pc' = "error"
             /\ queue' = [queue EXCEPT !.buildTree = rest]
             /\ UNCHANGED <<visited, nodeMap, expansions, enqueued, skipped>>
        ELSE IF Filtered(e.pkg) \/ AlreadyVisited("buildTree", e.pkg)
        THEN /\ queue' = [queue EXCEPT !.buildTree = rest]
             /\ UNCHANGED <<pc, visited, nodeMap, expansions, enqueued, skipped>>
        ELSE LET old == IF e.pkg \in DOMAIN nodeMap THEN nodeMap[e.pkg] ELSE <<>>
                 acc == TreeForDeps(Deps(e.pkg), e,
                          [deps |-> old, queue |-> rest,
                           enqueued |-> enqueued.buildTree,
                           skipped |-> skipped.buildTree])
             IN /\ visited' = [visited EXCEPT !.buildTree = @ \cup {e.pkg}]
                /\ nodeMap' = (e.pkg :> acc.deps) @@ nodeMap
                /\ queue' = [queue EXCEPT !.buildTree = acc.queue]
                /\ enqueued' = [enqueued EXCEPT !.buildTree = acc.enqueued]
                /\ skipped' = [skipped EXCEPT !.buildTree = acc.skipped]
                /\ expansions' = [expansions EXCEPT !.buildTree = Append(@, e)]
                /\ UNCHANGED pc
  /\ UNCHANGED <<args, config, errors, graph, edges, d2Code, stack, out>>

\* buildTree returns { root, nodeMap }; main calls printTree
BuildTreeReturn ==
  /\ pc = "buildTree"
  /\ queue.buildTree = <<>>
  /\ pc' = "printTree"
  /\ UNCHANGED <<args, config, errors, graph, visited, queue, edges, d2Code, nodeMap,
                 stack, out, expansions, enqueued, skipped>>

(***************************************************************************)
(* printTree: the recursion of printNode as an explicit call stack.  A     *)
(* frame is a running forEach: the package whose children are printed, the *)
(* number of children already printed and the prefix of the package.       *)
(***************************************************************************)
\* nodeMap.get(pkg).deps, or nothing when the node is undefined
Children(pkg) == IF pkg \in DOMAIN nodeMap THEN nodeMap[pkg] ELSE <<>>

\* isLast ? '    ' : '|   ', one indentation unit
Indent(i, n) == IF i = n THEN "    " ELSE "|   "

\* the number of printNode calls that are active
CallDepth == Len(stack) - 1

\* printTree prints the header and the root, and starts the forEach over
\* the children of the root
PrintTree ==
  /\ pc = "printTree"
  /\ out' = << [kind |-> "header", prefix |-> <<>>, pkg |-> config.packageName],
               [kind |-> "root", prefix |-> <<>>, pkg |-> config.packageName] >>
  /\ stack' = << [pkg |-> config.packageName, i |-> 0, prefix |-> <<>>] >>
  /\ pc' = "printNode"
  /\ UNCHANGED <<args, config, errors, graph, visited, queue, edges, d2Code, nodeMap,
                 expansions, enqueued, skipped>>

\* the forEach of the top frame calls printNode on its next child
PrintNode ==
  /\ pc = "printNode"
  /\ stack # <<>>
  /\ LET top == stack[Len(stack)]
         deps == Children(top.pkg)
     IN /\ top.i < Len(deps)
        /\ LET dep == deps[top.i + 1]
               prefix == Append(top.prefix, Indent(top.i + 1, Len(deps)))
           IN IF CallDepth >= StackLimit
              THEN \* RangeError: Maximum call stack size exceeded, caught by main
                   /\ pc' = "error"
                   /\ UNCHANGED <<stack, out>>
              ELSE /\ out' = Append(out, [kind |-> "node", prefix |-> prefix, pkg |-> dep])
                   /\ stack' = Append([stack EXCEPT ![Len(stack)].i = top.i + 1],
                                      [pkg |-> dep, i |-> 0, prefix |-> prefix])
                   /\ UNCHANGED pc
  /\ UNCHANGED <<args, config, errors, graph, visited, queue, edges, d2Code, nodeMap,
                 expansions, enqueued, skipped>>

\* the forEach of the top frame is over: printNode returns; when printTree
\* itself returns main prints its closing notes and ends
PrintReturn ==
  /\ pc = "printNode"
  /\ stack # <<>>
  /\ stack[Len(stack)].i >= Len(Children(stack[Len(stack)].pkg))
  /\ stack' = SubSeq(stack, 1, Len(stack) - 1)
  /\ pc' = IF Len(stack) = 1 THEN "done" ELSE "printNode"
  /\ UNCHANGED <<args, config, errors, graph, visited, queue, edges, d2Code, nodeMap,
                 out, expansions, enqueued, skipped>>

Next ==
  \/ ValidateArgs
  \/ MainCloneMode
  \/ MainFileNotFound
  \/ MainParseTestGraph
  \/ CollectEdgesLoop
  \/ CollectEdgesReturn
  \/ BuildTreeLoop
  \/ BuildTreeReturn
  \/ PrintTree
  \/ PrintNode
  \/ PrintReturn

Spec == Init /\ [][Next]_vars

\* main runs to completion: a step that can be taken is taken
FairSpec == Spec /\ WF_vars(Next)

(***************************************************************************)
(* Vocabulary of the properties.                                           *)
(***************************************************************************)
AllNames == Names \cup {Undefined}

\* validateArgs found nothing wrong with the arguments
ValidConfiguration == pc # "start" /\ errors = <<>>

\* maxDepth is a non-negative integer
IsNat(m) == m.k = "int" /\ m.v >= 0

\* the packages of the graph: its keys and everything they list
Pkgs == DOMAIN graph \cup UNION { Range(graph[n]) : n \in DOMAIN graph }

RECURSIVE ReachFrom(_)
ReachFrom(S) ==
  LET T == S \cup { d \in Names : \E n \in S \cap DOMAIN graph : d \in Range(graph[n]) }
  IN IF T = S THEN S ELSE ReachFrom(T)

\* the packages reachable from the root along dependency edges, root included
Reach == ReachFrom({config.packageName})

\* how often function f has expanded package n
ExpandCount(f, n) ==
  Cardinality({ i \in 1..Len(expansions[f]) : expansions[f][i].pkg = n })

\* function f has been called and its loop is over
Finished(f) == enqueued[f] # {} /\ pc # f

\* the (parent, child) pairs of nodeMap, written as collectEdges writes edges
TreePairs == UNION { { EdgeStr(p, d) : d \in Range(nodeMap[p]) } : p \in DOMAIN nodeMap }

\* the names that occur as a child in nodeMap
TreeChildren == UNION { Range(nodeMap[p]) : p \in DOMAIN nodeMap }

\* the two ends of an edge string: no name holds a blank, so the first blank
\* of `${pkg} -> ${dep}` is the one that follows pkg
EdgeFrom(e) ==
  LET k == CHOOSE i \in 1..Len(e) : e[i] = " " /\ \A j \in 1..(i - 1) : e[j] # " "
  IN SubSeq(e, 1, k - 1)

EdgeTo(e) == SubSeq(e, Len(EdgeFrom(e)) + 5, Len(e))

\* the names that occur as an end of an edge of collectEdges
EdgeEnds == UNION { { EdgeFrom(edges[i]), EdgeTo(edges[i]) } : i \in 1..Len(edges) }

\* a sequence in which no element occurs twice
Simple(path) == \A i, j \in 1..Len(path) : path[i] = path[j] => i = j

(***************************************************************************)
(* C1.  The breadth-first loops of collectEdges and buildTree terminate:   *)
(* once collectEdges runs, its queue is eventually empty and it has        *)
(* returned (or thrown); the same for buildTree.  Checked under FairSpec.  *)
(***************************************************************************)
C1_LoopsTerminate ==
  /\ (pc = "collectEdges") ~> (pc # "collectEdges" /\ queue.collectEdges = <<>>)
  /\ (pc = "buildTree") ~> (pc # "buildTree" /\ queue.buildTree = <<>>)

\* both loops have run to their end on a graph with a self-loop and a
\* skipped cycle
C1_Witness ==
  /\ pc = "done"
  /\ Finished("collectEdges") /\ Finished("buildTree")
  /\ \E n \in DOMAIN graph : n \in Range(graph[n]) /\ n \in visited.buildTree
  /\ Len(expansions.collectEdges) >= 2
  /\ skipped.buildTree # {}

\* the case C2 is about: empty filter, root a key, maxDepth large enough
C2_Pre ==
  /\ config.packageName \in DOMAIN graph
  /\ config.filter = <<>>
  /\ config.maxDepth.k = "int"
  /\ config.maxDepth.v >= Cardinality(Pkgs)

(***************************************************************************)
(* C2.  With an empty filter, a root that is a key and an integer maxDepth *)
(* at least the number of packages of the graph, a finished traversal has  *)
(* visited exactly the packages reachable from the root and has expanded   *)
(* each of them exactly once, and no other package.                        *)
(***************************************************************************)
C2_VisitsReachableOnce ==
  C2_Pre =>
    /\ \A f \in Funcs :
         Finished(f) =>
           /\ visited[f] = Reach
           /\ \A n \in AllNames : ExpandCount(f, n) = IF n \in Reach THEN 1 ELSE 0
    /\ Finished("buildTree") => DOMAIN nodeMap = Reach

\* a package with two parents, one of them reaching it over a skipped
\* cycle edge, and a package outside the reachable set
C2_Witness ==
  /\ C2_Pre /\ pc = "done" /\ Finished("buildTree")
  /\ Cardinality(Reach) = 2 /\ Cardinality(Pkgs) = 3
  /\ skipped.collectEdges # {}
  /\ \E n \in Reach : Cardinality({ p \in Reach : n \in Range(Deps(p)) }) = 2

(***************************************************************************)
(* C3.  For a non-negative integer maxDepth: every package buildTree adds  *)
(* to visited and nodeMap is dequeued at a depth <= maxDepth, and every    *)
(* package named in nodeMap or at an end of an edge of collectEdges has a  *)
(* queue entry of depth <= maxDepth.                                       *)
(***************************************************************************)
C3_DepthBounded ==
  IsNat(config.maxDepth) =>
    /\ \A n \in visited.buildTree \cup DOMAIN nodeMap :
         \E i \in 1..Len(expansions.buildTree) :
           /\ expansions.buildTree[i].pkg = n
           /\ expansions.buildTree[i].depth <= config.maxDepth.v
    /\ \A i \in 1..Len(expansions.buildTree) :
         expansions.buildTree[i].depth <= config.maxDepth.v
    /\ \A n \in TreeChildren :
         \E q \in enqueued.buildTree : q.pkg = n /\ q.depth <= config.maxDepth.v
    /\ \A n \in EdgeEnds :
         \E q \in enqueued.collectEdges : q.pkg = n /\ q.depth <= config.maxDepth.v

\* a dependency at depth maxDepth + 1 exists in the graph and was cut by
\* both traversals
C3_Witness ==
  /\ pc = "done" /\ Finished("buildTree") /\ IsNat(config.maxDepth)
  /\ config.maxDepth.v >= 1
  /\ \E q \in enqueued.buildTree :
       /\ q.depth = config.maxDepth.v
       /\ \E d \in Range(Deps(q.pkg)) : d \notin visited.buildTree /\ d \notin EdgeEnds
  /\ Len(edges) >= 1

(***************************************************************************)
(* C4.  With a non-empty filter, a package whose name contains the filter  *)
(* is in no visited set, is no key and no child of nodeMap, is at no end   *)
(* of an edge of collectEdges, and is never expanded.                      *)
(***************************************************************************)
C4_FilteredAbsent ==
  config.filter # <<>> =>
    \A n \in AllNames :
      Includes(n, config.filter) =>
        /\ \A f \in Funcs : n \notin visited[f] /\ ExpandCount(f, n) = 0
        /\ n \notin DOMAIN nodeMap
        /\ n \notin TreeChildren
        /\ n \notin EdgeEnds

\* a visited package lists a filtered dependency beside one that is kept
C4_Witness ==
  /\ pc = "done" /\ Finished("buildTree") /\ config.filter # <<>>
  /\ \E n \in visited.buildTree \cap visited.collectEdges :
       /\ \E d \in Range(Deps(n)) : Includes(d, config.filter)
       /\ \E d \in Range(Deps(n)) : EdgeStr(n, d) \in Range(edges)
       /\ Len(nodeMap[n]) >= 1

(***************************************************************************)
(* C5.  If the root is no key of the parsed graph the result is empty: no  *)
(* package (not even the root) is visited or in nodeMap, no edge is        *)
(* returned, and root-not-found is reported.                               *)
(***************************************************************************)
C5_RootNotFoundEmpty ==
  (/\ ValidConfiguration /\ Finished("buildTree") /\ pc = "done"
   /\ config.packageName \notin DOMAIN graph) =>
    /\ visited.buildTree = {} /\ visited.collectEdges = {}
    /\ DOMAIN nodeMap = {}
    /\ edges = <<>>
    /\ RootNotFound

\* validateArgs found a bad --max-depth or no --package-name
InvalidConfiguration ==
  \E i \in 1..Len(errors) : errors[i] \in {"max-depth", "package-name"}

(***************************************************************************)
(* C6.  With a negative or non-integer maxDepth or an empty package name   *)
(* the run fails before any traversal step: neither collectEdges nor       *)
(* buildTree is invoked with such a configuration.                         *)
(***************************************************************************)
C6_InvalidConfigurationFails ==
  InvalidConfiguration =>
    /\ pc \notin {"collectEdges", "buildTree", "printTree", "printNode"}
    /\ \A f \in Funcs : enqueued[f] = {}

Cycle3 == (<<"a">> :> << <<"b">> >>) @@ (<<"b">> :> << <<"c", "b">> >>)
          @@ (<<"c", "b">> :> << <<"a">> >>)

C8_TreeMatchesEdges ==
  (IsNat(config.maxDepth) /\ Finished("collectEdges") /\ Finished("buildTree"))
    => TreePairs = Range(edges)

\* buildTree has visited a package at depth maxDepth that collectEdges cut,
\* and that package has dependencies in the graph
C8_Witness ==
  /\ pc = "done" /\ Finished("buildTree") /\ IsNat(config.maxDepth)
  /\ \E n \in visited.buildTree \ visited.collectEdges : Deps(n) # <<>>
  /\ Len(edges) >= 2

(***************************************************************************)
(* C9.  printTree terminates on the tree of buildTree: printNode never     *)
(* revisits a package that is already on its own recursion chain.          *)
(***************************************************************************)
C9_PrintChainSimple ==
  ValidConfiguration =>
    /\ Simple([i \in 1..Len(stack) |-> stack[i].pkg])
    /\ (pc = "error" => out = <<>>)

(***************************************************************************)
(* C10.  For a non-negative integer maxDepth no package is printed at a    *)
(* nesting level greater than maxDepth.                                    *)
(***************************************************************************)
C10_PrintDepthBounded ==
  (ValidConfiguration /\ IsNat(config.maxDepth)) =>
    \A i \in 1..Len(out) : Len(out[i].prefix) <= config.maxDepth.v

====
